---- MODULE Spec2Model ----
\* Model of the AudioVisualizer class of src/script.js: the capture session
\* life cycle (start handlers, stopVisualizer, stopScreenShare), the frame
\* callback of startVisualization (throttle, sample, boost, smooth, draw,
\* re-request) and the drawing modes' reads of the spectrum buffers.
\*
\* Numbers: spectrum bytes are integers 0..255.  Values the code keeps in
\* Float32Array buffers or doubles are kept in fixed point, FP units per 1
\* (value 150 is 1.5), every product rounded to the nearest unit; a raindrop's
\* alpha is kept in AlphaFP units per 1.
\* Sensitivity is kept in tenths (10 is 1.0).  Times are milliseconds.
EXTENDS Integers, Sequences, FiniteSets, TLC

VARIABLES
  \* fields of AudioVisualizer
  isPlaying, analyser, audioContext, microphone, screenShare, animationId,
  frequencyData, dataArray, boostedFrequencyData, smoothedFrequencyData,
  sensitivity, visualType, raindrops, barRaindropTimers, lastFrameTime,
  isFullscreen, lastCanvasSize, starPositions, previousCirclePositions,
  canvasWidth, canvasHeight,   \* canvas.width, canvas.height
  ctx,                \* TRUE when getContext("2d") gave a context, FALSE for null
  \* the page and the browser around it
  startBtnDisabled,   \* startBtn.disabled = screenShareBtn.disabled = ~stopBtn.disabled
  statusType,         \* class last given to the status element by updateStatus
  rafPending,         \* animation frame requests the browser still holds
  pending,            \* start handlers suspended at their await, per kind
  openContexts,       \* AudioContexts created and not closed
  liveTracks,         \* captured streams whose tracks are running
  onended,            \* streams whose track carries the onended handler
  starts,             \* start handlers begun so far (names the next session)
  clock,              \* milliseconds since the time origin
  window,             \* innerWidth, innerHeight and the container's width
  \* position of the running frame callback
  pc,
  \* what the last draw() painted
  drawn,
  \* observers
  lastEvent, stoppedSince, stopFrom, frameLog, frameGap, frames,
  starAttempts,       \* the attempts the placement loop took for each star
  starGenerations,    \* how often drawStarlight has generated the stars
  starCanvas,         \* the canvas size the stars were generated for
  spawnLog            \* the raindrops created in this session: where and when

vars == <<isPlaying, analyser, audioContext, microphone, screenShare,
          animationId, frequencyData, dataArray, boostedFrequencyData,
          smoothedFrequencyData, sensitivity, visualType, raindrops,
          barRaindropTimers, lastFrameTime, startBtnDisabled, statusType,
          rafPending, pending, openContexts, liveTracks, onended, starts,
          clock, pc, drawn, lastEvent, stoppedSince, stopFrom, frameLog,
          frameGap, frames, isFullscreen, lastCanvasSize, starPositions,
          canvasWidth, canvasHeight, window, starAttempts, starGenerations,
          starCanvas, spawnLog, previousCirclePositions, ctx>>

bufferVars == <<frequencyData, dataArray, boostedFrequencyData,
                smoothedFrequencyData>>
rainVars == <<raindrops, barRaindropTimers, spawnLog>>
canvasVars == <<canvasWidth, canvasHeight, isFullscreen, window, ctx>>
starVars == <<starPositions, starAttempts, lastCanvasSize, starGenerations,
              starCanvas>>
knobVars == <<sensitivity, visualType>>

----------------------------------------------------------------------------
\* Bounds of the model

NumBins == 3        \* length of frequencyData (128 in the page)
MaxStarts == 3      \* start handlers begun in one behaviour
MaxFrames == 2      \* processed frames in one behaviour
MaxClock == 40      \* last millisecond a frame callback may run at
MaxLen == 4         \* longest array handed to applyHighEndBoost on its own
SmoothFrames == 30  \* processed frames of a run that holds its spectrum
CanvasFrames == 3   \* processed frames of a run whose window changes
RainFrames == 5     \* processed frames of a run that spawns raindrops
FadeFrames == 161   \* processed frames of a run that lets raindrops fade
StarFrames == 2     \* processed frames of a run that generates stars

----------------------------------------------------------------------------
\* Program constants

FP == 100
AlphaFP == 1000
Null == 0
InnerOffset == 100
DateOrigin == 1000000
CanvasWidth == 1400
CanvasHeight == 800
targetFPS == 45
raindropInterval == 200

Min(a, b) == IF a < b THEN a ELSE b
Abs(a) == IF a < 0 THEN 0 - a ELSE a
Max(a, b) == IF a > b THEN a ELSE b
\* a / b rounded to the nearest integer, a >= 0, b > 0
RoundDiv(a, b) == (a + b \div 2) \div b

DateNow == DateOrigin + clock

EmptyTimers == [i \in {} |-> 0]
NoDraw == [mode |-> "none", data |-> <<>>, values |-> <<>>, geom |-> <<>>,
           bars |-> <<>>]
NoStop == [wasPlaying |-> FALSE, hadRaindrops |-> FALSE, hadRequest |-> FALSE,
           afterStop |-> FALSE]

Kinds == {"microphone", "desktop", "mobile"}

----------------------------------------------------------------------------
\* requestAnimationFrame / cancelAnimationFrame

\* A handle the browser has not handed out: never the one animationId holds.
FreshReq(aid, pend) ==
  CHOOSE r \in 1..(Cardinality(pend) + 2) : r # aid /\ r \notin pend

requestAnimationFrame(aid, pend) ==
  LET r == FreshReq(aid, pend)
  IN  [animationId |-> r, rafPending |-> pend \cup {r}]

startVisualizationUnguarded(aid, an, context, pend) ==
  IF an = Null \/ ~context THEN [animationId |-> aid, rafPending |-> pend]
  ELSE requestAnimationFrame(aid, pend)

\* The three early returns (the canvas element itself always exists), then
\* the first request.
startVisualization(aid, an, context, pend) ==
  IF aid # Null THEN [animationId |-> aid, rafPending |-> pend]
  ELSE IF an = Null THEN [animationId |-> aid, rafPending |-> pend]
  ELSE IF ~context THEN [animationId |-> aid, rafPending |-> pend]
  ELSE requestAnimationFrame(aid, pend)

stopVisualizationKeepsId(aid, pend) ==
  [animationId |-> aid, rafPending |-> pend \ {aid}]

stopVisualizationNoCancel(aid, pend) ==
  [animationId |-> Null, rafPending |-> pend]

stopVisualization(aid, pend) ==
  IF aid # Null THEN [animationId |-> Null, rafPending |-> pend \ {aid}]
  ELSE [animationId |-> aid, rafPending |-> pend]

----------------------------------------------------------------------------
\* Session life cycle

\* What every event handler leaves alone unless it says otherwise.
NoFrame == UNCHANGED <<pc, drawn, frameLog, frameGap, frames, clock,
                       lastFrameTime, knobVars, canvasVars, starVars,
                       previousCirclePositions>>

\* stopFrom describes the state a stopVisualizer call started from, for as long
\* as that call is the last event.
NoStopFrom == stopFrom' = NoStop

\* A click on startBtn: startMicrophone runs up to its await.
StartMicrophoneClick ==
  /\ pc = "idle" /\ ~startBtnDisabled /\ starts < MaxStarts
  /\ starts' = starts + 1
  /\ pending' = [pending EXCEPT !["microphone"] = @ + 1]
  /\ statusType' = "active"
  /\ lastEvent' = "other"
  /\ NoStopFrom
  /\ NoFrame
  /\ UNCHANGED <<isPlaying, analyser, audioContext, microphone, screenShare,
                 animationId, rafPending, startBtnDisabled, openContexts,
                 liveTracks, onended, bufferVars, rainVars, stoppedSince>>

\* A click on screenShareBtn: startScreenShare runs up to its first await, on
\* the mobile path or the desktop path as the user agent and window say.
StartScreenShareClick(kind) ==
  /\ pc = "idle" /\ ~startBtnDisabled /\ starts < MaxStarts
  /\ kind \in {"desktop", "mobile"}
  /\ starts' = starts + 1
  /\ pending' = [pending EXCEPT ![kind] = @ + 1]
  /\ statusType' = "active"
  /\ lastEvent' = "other"
  /\ NoStopFrom
  /\ NoFrame
  /\ UNCHANGED <<isPlaying, analyser, audioContext, microphone, screenShare,
                 animationId, rafPending, startBtnDisabled, openContexts,
                 liveTracks, onended, bufferVars, rainVars, stoppedSince>>

\* The session a resumed start handler creates, named by a number no stream,
\* context or handler of an earlier session still carries.
NextSession ==
  CHOOSE s \in 1..(MaxStarts + 1) :
    /\ s \notin openContexts /\ s \notin liveTracks
    /\ s # audioContext /\ s # microphone /\ s # screenShare /\ s # analyser

ZeroBuffer(n) == [i \in 1..n |-> 0]

\* getUserMedia resolved with a stream: the rest of startMicrophone.
StartMicrophoneGranted ==
  /\ pc = "idle" /\ pending["microphone"] > 0
  /\ LET s == NextSession
         v == startVisualization(animationId, s, ctx, rafPending)
     IN  /\ pending' = [pending EXCEPT !["microphone"] = @ - 1]
         /\ liveTracks' = liveTracks \cup {s}
         /\ openContexts' = openContexts \cup {s}
         /\ audioContext' = s
         /\ analyser' = s
         /\ microphone' = s
         /\ smoothedFrequencyData' = ZeroBuffer(Len(frequencyData))
         /\ isPlaying' = TRUE
         /\ statusType' = "active"
         /\ startBtnDisabled' = TRUE
         /\ animationId' = v.animationId
         /\ rafPending' = v.rafPending
  /\ lastEvent' = "start"
  /\ NoStopFrom
  /\ stoppedSince' = FALSE
  /\ NoFrame
  /\ UNCHANGED <<screenShare, onended, starts, frequencyData, dataArray,
                 boostedFrequencyData, rainVars>>

\* getUserMedia / getDisplayMedia rejected: the catch block (the mobile path
\* returns after its last fallback failed).  Only the status changes.
StartDenied(kind) ==
  /\ pc = "idle" /\ kind \in Kinds /\ pending[kind] > 0
  /\ pending' = [pending EXCEPT ![kind] = @ - 1]
  /\ statusType' = "error"
  /\ lastEvent' = "other"
  /\ NoStopFrom
  /\ NoFrame
  /\ UNCHANGED <<isPlaying, analyser, audioContext, microphone, screenShare,
                 animationId, rafPending, startBtnDisabled, openContexts,
                 liveTracks, onended, starts, bufferVars, rainVars,
                 stoppedSince>>

\* getDisplayMedia resolved with a stream: the desktop rest of startScreenShare.
StartScreenShareGranted ==
  /\ pc = "idle" /\ pending["desktop"] > 0
  /\ LET s == NextSession
         v == startVisualization(animationId, s, ctx, rafPending)
     IN  /\ pending' = [pending EXCEPT !["desktop"] = @ - 1]
         /\ liveTracks' = liveTracks \cup {s}
         /\ openContexts' = openContexts \cup {s}
         /\ audioContext' = s
         /\ analyser' = s
         /\ screenShare' = s
         /\ smoothedFrequencyData' = ZeroBuffer(Len(frequencyData))
         /\ isPlaying' = TRUE
         /\ statusType' = "active"
         /\ startBtnDisabled' = TRUE
         /\ animationId' = v.animationId
         /\ rafPending' = v.rafPending
         /\ onended' = onended \cup {s}
  /\ lastEvent' = "start"
  /\ NoStopFrom
  /\ stoppedSince' = FALSE
  /\ NoFrame
  /\ UNCHANGED <<microphone, starts, frequencyData, dataArray,
                 boostedFrequencyData, rainVars>>

\* One of the mobile capture methods produced a stream: the mobile rest of
\* startScreenShare.  method "direct" is a getUserMedia stream; "destination"
\* is tryAudioContextCapture / tryAudioWorkletCapture, which open a context of
\* their own, capture an inner stream into it and return destination.stream.
StartMobileGranted(method) ==
  /\ pc = "idle" /\ pending["mobile"] > 0
  /\ method \in {"direct", "destination"}
  /\ LET s == NextSession
         inner == IF method = "destination" THEN {s + InnerOffset} ELSE {}
         v == startVisualization(animationId, s, ctx, rafPending)
     IN  /\ pending' = [pending EXCEPT !["mobile"] = @ - 1]
         /\ liveTracks' = liveTracks \cup {s} \cup inner
         /\ openContexts' = openContexts \cup {s} \cup inner
         /\ audioContext' = s
         /\ analyser' = s
         /\ microphone' = s
         /\ isPlaying' = TRUE
         /\ statusType' = "active"
         /\ startBtnDisabled' = TRUE
         /\ animationId' = v.animationId
         /\ rafPending' = v.rafPending
         /\ onended' = onended \cup {s}
  /\ lastEvent' = "start"
  /\ NoStopFrom
  /\ stoppedSince' = FALSE
  /\ NoFrame
  /\ UNCHANGED <<screenShare, starts, bufferVars, rainVars>>

\* stopScreenShare's assignment to isPlaying: script.js makes none.
stopScreenShareIsPlaying(playing) == playing

\* The capture source ended by itself (the user ended the share, the device
\* went away): the browser ends the stream's tracks and fires onended, whose
\* handler calls stopScreenShare and updateStatus(.., "info").
CaptureEnded(s) ==
  /\ pc = "idle" /\ s \in onended /\ s \in liveTracks
  /\ liveTracks' = liveTracks \ {s}
  /\ LET v == stopVisualization(animationId, rafPending)
     IN  /\ animationId' = v.animationId
         /\ rafPending' = v.rafPending
  /\ screenShare' = Null
  /\ isPlaying' = stopScreenShareIsPlaying(isPlaying)
  /\ statusType' = "info"
  /\ lastEvent' = "onended"
  /\ NoStopFrom
  /\ NoFrame
  /\ onended' = onended \ {s}
  /\ UNCHANGED <<analyser, audioContext, microphone, startBtnDisabled,
                 pending, openContexts, starts, bufferVars, rainVars,
                 stoppedSince>>

clearedTimersKept(timers) == timers

\* barRaindropTimers after stopVisualizer.
clearedTimers(timers) == EmptyTimers

stoppedIsPlayingToggled(playing) == ~playing

\* this.isPlaying = false.
stoppedIsPlaying(playing) == FALSE

\* The body of stopVisualizer; every release in it is guarded by a test of
\* the field it releases.
stopVisualizer ==
  /\ LET v == stopVisualization(animationId, rafPending)
     IN  /\ animationId' = v.animationId
         /\ rafPending' = v.rafPending
  /\ liveTracks' = IF microphone # Null THEN liveTracks \ {microphone}
                   ELSE liveTracks
  /\ microphone' = Null
  /\ openContexts' = IF audioContext # Null THEN openContexts \ {audioContext}
                     ELSE openContexts
  /\ audioContext' = Null
  /\ screenShare' = Null
  /\ analyser' = Null
  /\ isPlaying' = stoppedIsPlaying(isPlaying)
  /\ raindrops' = <<>>
  /\ barRaindropTimers' = clearedTimers(barRaindropTimers)
  /\ spawnLog' = <<>>
  /\ statusType' = "info"
  /\ startBtnDisabled' = ~stoppedIsPlaying(isPlaying)
  /\ lastEvent' = "stopVisualizer"
  /\ stoppedSince' = TRUE
  /\ stopFrom' = [wasPlaying |-> isPlaying, hadRaindrops |-> raindrops # <<>>,
                  hadRequest |-> rafPending # {},
                  afterStop |-> lastEvent = "stopVisualizer"]
  /\ onended' = onended \ {microphone}
  /\ NoFrame
  /\ UNCHANGED <<pending, starts, bufferVars>>

\* A click on stopBtn, which is enabled while the start buttons are not.
StopVisualizer == pc = "idle" /\ startBtnDisabled /\ stopVisualizer

\* stopVisualizer called whatever the buttons show.
StopVisualizerCall == pc = "idle" /\ stopVisualizer

----------------------------------------------------------------------------
\* The canvas, the window and fullscreen mode

DesktopWindow == [innerWidth |-> 1440, innerHeight |-> 900, rectWidth |-> 1400,
                  container |-> TRUE]
ShortWindow == [innerWidth |-> 1440, innerHeight |-> 800, rectWidth |-> 1400,
                container |-> TRUE]
SmallWindow == [innerWidth |-> 1000, innerHeight |-> 600, rectWidth |-> 960,
                container |-> TRUE]
PhoneWindow == [innerWidth |-> 375, innerHeight |-> 667, rectWidth |-> 355,
                container |-> TRUE]
Windows == {DesktopWindow, ShortWindow, SmallWindow, PhoneWindow}

\* lastCanvasSize is undefined, the object setupCanvas stores or the string
\* drawStarlight stores; values of different kinds are never equal.
NoSize == [kind |-> "undefined", width |-> 0, height |-> 0]
SizeObject(w, h) == [kind |-> "object", width |-> w, height |-> h]
SizeString(w, h) == [kind |-> "string", width |-> w, height |-> h]

\* The last lines of setupCanvas: a missing context is asked for again, and
\* getContext may give one or null again.
contextsAfterSetup(context) == IF context THEN {TRUE} ELSE BOOLEAN

\* setupCanvas with the canvas at w x h: the new size and lastCanvasSize.  An
\* assignment to canvas.width or canvas.height drops the fraction.
setupCanvas(win, w, h, last) ==
  IF ~win.container THEN [width |-> w, height |-> h, lastCanvasSize |-> last]
  ELSE LET mw == win.rectWidth - 20
           mh == Min(win.innerHeight \div 2, 400)
           size ==
             IF win.innerWidth <= 768
             THEN IF mw <= 0 \/ mh <= 0 THEN [width |-> 320, height |-> 240]
                  ELSE [width |-> mw, height |-> mh]
             ELSE [width |-> Min(1200, win.rectWidth - 40),
                   height |-> Min(800, (win.rectWidth * 6) \div 10)]
       IN  [width |-> size.width, height |-> size.height,
            lastCanvasSize |-> SizeObject(size.width, size.height)]

\* The constructor sets the canvas to CanvasWidth x CanvasHeight and init()
\* calls setupCanvas; no stars exist yet.
CanvasInit ==
  /\ window = DesktopWindow
  /\ isFullscreen = FALSE
  /\ LET c == setupCanvas(DesktopWindow, CanvasWidth, CanvasHeight, NoSize)
     IN  /\ canvasWidth = c.width /\ canvasHeight = c.height
         /\ lastCanvasSize = c.lastCanvasSize
  /\ starPositions = <<>> /\ starAttempts = <<>> /\ starGenerations = 0
  /\ starCanvas = <<0, 0>>
  /\ previousCirclePositions = <<>>
  /\ spawnLog = <<>>

\* What the canvas handlers leave alone.
canvasFrame ==
  UNCHANGED <<isPlaying, analyser, audioContext, microphone, screenShare,
              animationId, startBtnDisabled, rafPending, pending,
              openContexts, liveTracks, onended, starts, clock,
              lastFrameTime, bufferVars, rainVars, knobVars, pc, drawn,
              stoppedSince, frameLog, frameGap, frames, starPositions,
              starAttempts, starGenerations, starCanvas,
              previousCirclePositions>>

\* The window's resize event: handleResize, then the fullscreen listener.
WindowResize(win) ==
  /\ pc = "idle" /\ win \in Windows /\ win # window
  /\ window' = win
  /\ LET c == setupCanvas(win, canvasWidth, canvasHeight, lastCanvasSize)
     IN  /\ lastCanvasSize' = c.lastCanvasSize
         /\ canvasWidth' = IF isFullscreen THEN win.innerWidth ELSE c.width
         /\ canvasHeight' = IF isFullscreen THEN win.innerHeight ELSE c.height
  /\ lastEvent' = "other"
  /\ NoStopFrom
  /\ ctx' \in contextsAfterSetup(ctx)
  /\ canvasFrame
  /\ UNCHANGED <<isFullscreen, statusType>>

\* toggleFullscreen outside fullscreen mode: enterFullscreen.
EnterFullscreen ==
  /\ pc = "idle" /\ ~isFullscreen
  /\ isFullscreen' = TRUE
  /\ canvasWidth' = window.innerWidth
  /\ canvasHeight' = window.innerHeight
  /\ statusType' = "active"
  /\ lastEvent' = "other"
  /\ NoStopFrom
  /\ canvasFrame
  /\ UNCHANGED <<window, lastCanvasSize, ctx>>

\* toggleFullscreen or the ESC key in fullscreen mode: exitFullscreen.
ExitFullscreen ==
  /\ pc = "idle" /\ isFullscreen
  /\ isFullscreen' = FALSE
  /\ LET c == setupCanvas(window, canvasWidth, canvasHeight, lastCanvasSize)
     IN  /\ lastCanvasSize' = c.lastCanvasSize
         /\ canvasWidth' = c.width
         /\ canvasHeight' = c.height
  /\ statusType' = "info"
  /\ lastEvent' = "other"
  /\ NoStopFrom
  /\ ctx' \in contextsAfterSetup(ctx)
  /\ canvasFrame
  /\ UNCHANGED window

----------------------------------------------------------------------------
\* Spectrum conditioning

Scale(f) == [i \in 1..Len(f) |-> f[i] * FP]

highEndStart(n) == (n * 6) \div 10

\* 1 + boostAmount for bin i (from 0) of n, as a fraction num / den.
boostNum(i, n) == 15 * (n - highEndStart(n)) + 8 * (i - highEndStart(n))
boostDen(n) == 10 * (n - highEndStart(n))

boostedValueUnclamped(v, i, n) ==
  IF i >= highEndStart(n)
  THEN RoundDiv(v * FP * boostNum(i, n), boostDen(n))
  ELSE v * FP

boostedValueNoOne(v, i, n) ==
  IF i >= highEndStart(n)
  THEN Min(255 * FP,
           RoundDiv(v * FP * (boostNum(i, n) - boostDen(n)), boostDen(n)))
  ELSE v * FP

boostedValue(v, i, n) ==
  IF i >= highEndStart(n)
  THEN Min(255 * FP, RoundDiv(v * FP * boostNum(i, n), boostDen(n)))
  ELSE v * FP

\* A Uint8Array in, a Float32Array out.
applyHighEndBoost(f) ==
  IF Len(f) = 0 THEN f
  ELSE [i \in 1..Len(f) |-> boostedValue(f[i], i - 1, Len(f))]

smoothFifth(boosted, smoothed) ==
  LET prev == IF Len(smoothed) # Len(boosted) THEN ZeroBuffer(Len(boosted))
              ELSE smoothed
  IN  [i \in 1..Len(boosted) |-> RoundDiv(20 * boosted[i] + 80 * prev[i], 100)]

smoothPlusAlpha(boosted, smoothed) ==
  LET prev == IF Len(smoothed) # Len(boosted) THEN ZeroBuffer(Len(boosted))
              ELSE smoothed
  IN  [i \in 1..Len(boosted) |-> RoundDiv(15 * boosted[i] + 115 * prev[i], 100)]

\* The smoothing loop of animate: alpha = 0.15.
smooth(boosted, smoothed) ==
  LET prev == IF Len(smoothed) # Len(boosted) THEN ZeroBuffer(Len(boosted))
              ELSE smoothed
  IN  [i \in 1..Len(boosted) |-> RoundDiv(15 * boosted[i] + 85 * prev[i], 100)]

----------------------------------------------------------------------------
\* Drawing modes

SpectrumModes == {"circular", "frequency2x", "frequency3x", "frequency4x",
                  "circles", "starlight", "retroBox"}
KnownModes == SpectrumModes \cup {"waveform"}

\* const data = this.boostedFrequencyData || (smoothed, if as long as
\* frequencyData, else frequencyData): an undefined buffer is <<>>.
barData ==
  IF boostedFrequencyData # <<>> THEN boostedFrequencyData
  ELSE IF Len(smoothedFrequencyData) = Len(frequencyData)
       THEN smoothedFrequencyData
       ELSE Scale(frequencyData)

\* drawRetroBox: boosted || smoothed || frequencyData.
retroData ==
  IF boostedFrequencyData # <<>> THEN boostedFrequencyData
  ELSE smoothedFrequencyData

\* The buffer a mode takes its bin values from.
modeData(mode) ==
  CASE mode = "circular" -> Scale(frequencyData)
    [] mode = "retroBox" -> retroData
    [] mode = "waveform" -> Scale(dataArray)
    [] mode \in SpectrumModes \ {"circular", "retroBox"} -> barData
    [] OTHER -> <<>>

retroMaxBars == canvasWidth \div 12

\* How many elements (rings, bars, points, stars) a mode draws from n bins.
modeCount(mode, n) ==
  CASE mode = "circular" -> (n + 3) \div 4
    [] mode \in {"frequency2x", "frequency3x", "frequency4x"} -> n
    [] mode = "circles" -> Min(n, 64)
    [] mode = "starlight" -> Min(n, 128)
    [] mode = "retroBox" -> retroMaxBars
    [] OTHER -> 0

\* The bin (from 0) element k (from 0) reads.
modeBin(mode, k, n) ==
  CASE mode = "circular" -> 4 * k
    [] mode = "starlight" -> k % n
    [] mode = "retroBox" -> (k * n) \div retroMaxBars
    [] OTHER -> k

\* const value = data[i] * this.sensitivity; drawRetroBox: data[dataIndex] || 0.
modeValue(mode, v) ==
  IF mode = "retroBox" THEN v ELSE RoundDiv(v * sensitivity, 10)

\* The length a mode derives from a value: ring radius, bar height, orbit
\* distance, star growth, equalizer bar length.
modeGeom(mode, value) ==
  CASE mode = "circular" ->
         RoundDiv(Min(canvasWidth, canvasHeight) * 3 * FP, 10)
           + RoundDiv(value * 100, 255)
    [] mode = "frequency2x" -> RoundDiv(value * 8 * canvasHeight, 2550)
    [] mode = "frequency3x" -> RoundDiv(value * 21 * canvasHeight, 25500)
    [] mode = "frequency4x" -> RoundDiv(value * canvasHeight, 765)
    [] mode = "circles" ->
         RoundDiv(value * 4 * Min(canvasWidth, canvasHeight), 2550)
    [] mode = "starlight" -> RoundDiv(value * 3, 255)
    [] mode = "retroBox" -> RoundDiv(value * 48 * canvasHeight, 25500) + 10 * FP
    [] OTHER -> 0

\* The bars of drawFrequencyBars2x and drawFrequencyBars3x.
perSideSpacing(n) == RoundDiv(canvasWidth * FP, 2 * n)
barWidth(n) == perSideSpacing(n) + 5 * FP
xRight(i, n) ==
  RoundDiv(canvasWidth * FP, 2) + i * perSideSpacing(n)
    - RoundDiv(barWidth(n) - perSideSpacing(n), 2)
xLeftOfBarBefore(i, n) ==
  RoundDiv(canvasWidth * FP, 2) - i * perSideSpacing(n)
    - RoundDiv(barWidth(n) - perSideSpacing(n), 2)

xLeft(i, n) ==
  RoundDiv(canvasWidth * FP, 2) - (i + 1) * perSideSpacing(n)
    - RoundDiv(barWidth(n) - perSideSpacing(n), 2)

\* const y: 2x bars stand on the bottom edge, 3x bars hang from the top.
barY(mode, height) ==
  IF mode = "frequency2x" THEN canvasHeight * FP - height ELSE 0

\* The two rectangles drawRoundedBarFlat gets for bar i (from 0) of n.
barRects(mode, i, n, height) ==
  [xRight |-> xRight(i, n), xLeft |-> xLeft(i, n), y |-> barY(mode, height),
   width |-> barWidth(n), height |-> height]

drawSwitchFallsBack(mode) ==
  IF mode \in KnownModes THEN mode ELSE "frequency3x"

\* The switch of draw(): it has no default branch, so after clearRect an
\* identifier that is no case label ("none") reaches no drawing method.
drawSwitch(mode) == IF mode \in KnownModes THEN mode ELSE "none"

\* What draw() paints in the active mode: the buffer read, the value of each
\* element, the length drawn for it and, in the two mirrored bar modes, the
\* rectangles.
drawMode(mode) ==
  LET data == modeData(mode)
      n == Len(data)
      cnt == IF n = 0 THEN 0 ELSE modeCount(mode, n)
      vals == [k \in 1..cnt |->
                 modeValue(mode, data[modeBin(mode, k - 1, n) + 1])]
      geom == [k \in 1..cnt |-> modeGeom(mode, vals[k])]
  IN  [mode |-> mode, data |-> data, values |-> vals, geom |-> geom,
       bars |-> IF mode \in {"frequency2x", "frequency3x"}
                THEN [k \in 1..cnt |-> barRects(mode, k - 1, n, geom[k])]
                ELSE <<>>]

----------------------------------------------------------------------------
\* Raindrops of frequency3x

createRaindrop(x, y, width, height, value) ==
  [x |-> x + RoundDiv(width, 2),
   y |-> y + height,
   width |-> Max(1 * FP, RoundDiv(width * 3, 10)),
   height |-> Max(2 * FP, RoundDiv(height, 10)),
   speed |-> RoundDiv(15 * FP, 10) + RoundDiv(value * 25, 2550),
   alpha |-> RoundDiv(8 * AlphaFP, 10),
   value |-> value]

movedRaindropFadingFast(r) ==
  [r EXCEPT !.y = @ + r.speed, !.alpha = @ - RoundDiv(10 * AlphaFP, 1000)]

\* One pass of updateRaindrops over one raindrop, and the test that removes it.
movedRaindrop(r) ==
  [r EXCEPT !.y = @ + r.speed, !.alpha = @ - RoundDiv(5 * AlphaFP, 1000)]
raindropGoneOffCanvasOnly(r) == r.y > canvasHeight * FP

raindropGone(r) == r.y > canvasHeight * FP \/ r.alpha <= 0

\* Every raindrop is moved and faded; those the test removes are spliced
\* out and the others keep their order.
updateRaindrops(drops) ==
  SelectSeq([k \in 1..Len(drops) |-> movedRaindrop(drops[k])],
            LAMBDA r : ~raindropGone(r))

timerOf(timers, i) == IF i \in DOMAIN timers THEN timers[i] ELSE 0

barSpawnsOnOneTimer(timers, height, i) ==
  /\ height > 15 * FP
  /\ DateNow - timerOf(timers, 0) > raindropInterval

\* Bar i of the frame (value and height as drawn) spawns its two raindrops.
barSpawns(timers, height, i) ==
  /\ height > 15 * FP
  /\ DateNow - timerOf(timers, i) > raindropInterval

\* The raindrops the bar loop of drawFrequencyBars3x creates, bar 0 first,
\* right before left.
RECURSIVE spawnedRaindrops(_, _, _)
spawnedRaindrops(d, timers, i) ==
  IF i > Len(d.values) THEN <<>>
  ELSE LET n == Len(d.values)
           here == IF barSpawns(timers, d.geom[i], i - 1)
                   THEN << createRaindrop(xRight(i - 1, n), 0, barWidth(n),
                                          d.geom[i], d.values[i]),
                           createRaindrop(xLeft(i - 1, n), 0, barWidth(n),
                                          d.geom[i], d.values[i]) >>
                   ELSE <<>>
       IN  here \o spawnedRaindrops(d, timers, i + 1)

timersAfterBars(d, timers) ==
  LET active == {i \in 0..(Len(d.values) - 1) : d.geom[i + 1] > 15 * FP}
  IN  [i \in (DOMAIN timers) \cup active |->
         IF i \in active /\ barSpawns(timers, d.geom[i + 1], i)
         THEN DateNow ELSE timerOf(timers, i)]

\* What the session's log keeps of raindrops just created (before their
\* first update): the x of the drop, the bar height it fell from, its speed
\* and alpha, and Date.now().
spawnEntries(drops) ==
  [k \in 1..Len(drops) |->
     [x |-> drops[k].x, height |-> drops[k].y, speed |-> drops[k].speed,
      alpha |-> drops[k].alpha, time |-> DateNow]]

----------------------------------------------------------------------------
\* Stars of starlight.  Positions are whole pixels, sizes hundredths of one.
\* randoms are the values Math.random() may return, in hundredths, at each
\* of the three calls of one attempt.

StarCandidates(randoms, w, h) ==
  {[x |-> 50 + (r1 * (w - 100)) \div 100,
    y |-> 50 + (r2 * (h - 100)) \div 100,
    size |-> 100 + 3 * r3] :
     r1 \in randoms.x, r2 \in randoms.y, r3 \in randoms.size}

\* distance < (size + existingStar.size) * 1.5.  Sizes are below 4, so stars 12
\* pixels apart along an axis never overlap.
tooClose(a, b) ==
  LET dx == a.x - b.x
      dy == a.y - b.y
      sizes == a.size + b.size
  IN  /\ Abs(dx) <= 12 /\ Abs(dy) <= 12
      /\ 40000 * (dx * dx + dy * dy) < 9 * sizes * sizes

isOverlapping(c, stars) == \E k \in 1..Len(stars) : tooClose(c, stars[k])

placedAnywhere(c, stars, attempts) == TRUE

\* The last attempt of the do-while loop passes the test or is the 100th.
placed(c, stars, attempts) == ~isOverlapping(c, stars) \/ attempts = 100

\* The star the do-while loop leaves and the attempts it took: an attempt
\* before the last one overlapped.
placeStar(stars, cands) ==
  LET blocked == {c \in cands : isOverlapping(c, stars)}
      counts == IF blocked = {} THEN {1} ELSE {1, 99, 100}
  IN  {p \in [star : cands, attempts : counts] :
         placed(p.star, stars, p.attempts)}

RECURSIVE starFields(_, _)
starFields(starCount, cands) ==
  IF starCount = 0 THEN {[positions |-> <<>>, attempts |-> <<>>]}
  ELSE UNION {
         {[positions |-> Append(f.positions, p.star),
           attempts |-> Append(f.attempts, p.attempts)] :
            p \in placeStar(f.positions, cands)} :
         f \in starFields(starCount - 1, cands)}

regenerates(positions, last, w, h) ==
  positions = <<>> \/ last # SizeString(w, h)

----------------------------------------------------------------------------
\* The trail store of circles: previousCirclePositions, undefined (<<>>)
\* until drawCircles first runs.  A position is kept as the centre of the
\* canvas and the distance from it; the angle is the circle's index.

circlePositions(d, previous) ==
  LET cnt == Len(d.geom)
  IN  [k \in 1..Max(cnt, Len(previous)) |->
         IF k <= cnt
         THEN [centerX |-> RoundDiv(canvasWidth * FP, 2),
               centerY |-> RoundDiv(canvasHeight * FP, 2),
               distance |-> d.geom[k]]
         ELSE previous[k]]

----------------------------------------------------------------------------
\* The frame callback (animate) of startVisualization

Flat(n, v) == [i \in 1..n |-> v]
Ramp(n) == [i \in 1..n |-> (255 * i) \div n]

\* timestamp - lastFrameTime < 1000 / targetFPS, with lastFrameTime truthy.
throttled(last, timestamp) ==
  last # 0 /\ targetFPS * (timestamp - last) < 1000

stepAfterDrawFirst(step) ==
  CASE step = "sample" -> "draw"
    [] step = "draw" -> "condition"
    [] step = "condition" -> "request"
    [] step = "request" -> "idle"

\* The statement order of a processed frame.
stepAfter(step) ==
  CASE step = "sample" -> "condition"
    [] step = "condition" -> "draw"
    [] step = "draw" -> "request"
    [] step = "request" -> "idle"

\* The browser runs a pending callback, d ms after the last one: the top
\* test, the throttle, and the assignment of lastFrameTime.
\* The run is cut off after maxFrames processed frames and at maxClock ms.
animate(d, maxFrames, maxClock) ==
  /\ pc = "idle" /\ clock + d <= maxClock
  /\ \E r \in rafPending :
       LET timestamp == clock + d
           left == rafPending \ {r}
       IN  /\ clock' = timestamp
           /\ IF ~isPlaying \/ analyser = Null
              THEN /\ rafPending' = left
                   /\ lastEvent' = "animateReturned"
                   /\ UNCHANGED <<animationId, lastFrameTime, pc, frameLog,
                                  frameGap, frames>>
              ELSE IF throttled(lastFrameTime, timestamp)
              THEN LET v == requestAnimationFrame(animationId, left)
                   IN  /\ animationId' = v.animationId
                       /\ rafPending' = v.rafPending
                       /\ lastEvent' = "animateThrottled"
                       /\ UNCHANGED <<lastFrameTime, pc, frameLog, frameGap,
                                      frames>>
              ELSE /\ frames < maxFrames
                   /\ rafPending' = left
                   /\ lastFrameTime' = timestamp
                   /\ frameGap' = IF frames > 0 THEN timestamp - lastFrameTime
                                  ELSE -1
                   /\ frames' = frames + 1
                   /\ frameLog' = <<>>
                   /\ pc' = "sample"
                   /\ lastEvent' = "animate"
                   /\ UNCHANGED animationId
  /\ NoStopFrom
  /\ UNCHANGED <<isPlaying, analyser, audioContext, microphone, screenShare,
                 startBtnDisabled, statusType, pending, openContexts,
                 liveTracks, onended, starts, bufferVars, rainVars, knobVars,
                 drawn, stoppedSince, canvasVars, starVars,
                 previousCirclePositions>>

AnimateEnter(d) == animate(d, MaxFrames, MaxClock)

frameSessionVars == <<isPlaying, analyser, audioContext, microphone,
                      screenShare, startBtnDisabled, statusType, pending,
                      openContexts, liveTracks, onended, starts, clock,
                      lastFrameTime, frameGap, frames, lastEvent,
                      stoppedSince, knobVars, canvasVars>>

\* getByteFrequencyData and getByteTimeDomainData fill the two byte arrays.
AnimateSample(sample, wave) ==
  /\ pc = "sample"
  /\ NoStopFrom
  /\ frequencyData' = sample
  /\ dataArray' = wave
  /\ frameLog' = Append(frameLog, "sample")
  /\ pc' = stepAfter("sample")
  /\ UNCHANGED <<boostedFrequencyData, smoothedFrequencyData, rainVars,
                 animationId, rafPending, drawn, starVars,
                 previousCirclePositions, frameSessionVars>>

\* applyHighEndBoost, then the smoothing loop.
AnimateCondition ==
  /\ pc = "condition"
  /\ NoStopFrom
  /\ boostedFrequencyData' = applyHighEndBoost(frequencyData)
  /\ smoothedFrequencyData' =
       smooth(applyHighEndBoost(frequencyData), smoothedFrequencyData)
  /\ frameLog' = Append(frameLog, "condition")
  /\ pc' = stepAfter("condition")
  /\ UNCHANGED <<frequencyData, dataArray, rainVars, animationId, rafPending,
                 drawn, starVars, previousCirclePositions, frameSessionVars>>

\* draw(): clearRect and the switch on visualType (frames are requested only
\* once startVisualization has found the context, so draw's own test of it
\* passes).  Only drawFrequencyBars3x
\* creates, updates and draws raindrops; only drawStarlight generates stars.
AnimateDrawRandom(randoms) ==
  /\ pc = "draw"
  /\ NoStopFrom
  /\ LET mode == drawSwitch(visualType)
         d == drawMode(mode)
         born == spawnedRaindrops(d, barRaindropTimers, 1)
     IN  /\ drawn' = d
         /\ IF mode = "frequency3x" /\ Len(frequencyData) > 0
            THEN /\ raindrops' = updateRaindrops(raindrops \o born)
                 /\ barRaindropTimers' = timersAfterBars(d, barRaindropTimers)
                 /\ spawnLog' = spawnLog \o spawnEntries(born)
            ELSE UNCHANGED rainVars
         /\ IF /\ mode = "starlight" /\ Len(frequencyData) > 0
               /\ regenerates(starPositions, lastCanvasSize, canvasWidth,
                              canvasHeight)
            THEN \E f \in starFields(Min(Len(d.data), 128),
                                     StarCandidates(randoms, canvasWidth,
                                                    canvasHeight)) :
                   /\ starPositions' = f.positions
                   /\ starAttempts' = f.attempts
                   /\ lastCanvasSize' = SizeString(canvasWidth, canvasHeight)
                   /\ starGenerations' = starGenerations + 1
                   /\ starCanvas' = <<canvasWidth, canvasHeight>>
            ELSE UNCHANGED starVars
         /\ IF mode = "circles" /\ Len(frequencyData) > 0
            THEN previousCirclePositions' =
                   circlePositions(d, previousCirclePositions)
            ELSE UNCHANGED previousCirclePositions
  /\ frameLog' = Append(frameLog, "draw")
  /\ pc' = stepAfter("draw")
  /\ UNCHANGED <<bufferVars, animationId, rafPending, frameSessionVars>>

FrameRandoms == [x |-> {50}, y |-> {50}, size |-> {50}]

AnimateDraw == AnimateDrawRandom(FrameRandoms)

\* this.animationId = requestAnimationFrame(animate), the callback's last line.
AnimateRequest ==
  /\ pc = "request"
  /\ NoStopFrom
  /\ LET v == requestAnimationFrame(animationId, rafPending)
     IN  /\ animationId' = v.animationId
         /\ rafPending' = v.rafPending
  /\ frameLog' = Append(frameLog, "request")
  /\ pc' = stepAfter("request")
  /\ UNCHANGED <<bufferVars, rainVars, drawn, starVars,
                 previousCirclePositions, frameSessionVars>>

----------------------------------------------------------------------------
\* The two controls

SetVisualType(mode) ==
  /\ pc = "idle" /\ mode # visualType
  /\ visualType' = mode
  /\ lastEvent' = "other"
  /\ NoStopFrom
  /\ UNCHANGED <<isPlaying, analyser, audioContext, microphone, screenShare,
                 animationId, startBtnDisabled, statusType, rafPending,
                 pending, openContexts, liveTracks, onended, starts, clock,
                 lastFrameTime, bufferVars, rainVars, sensitivity, pc, drawn,
                 stoppedSince, frameLog, frameGap, frames, canvasVars,
                 starVars, previousCirclePositions>>

SetSensitivity(tenths) ==
  /\ pc = "idle" /\ tenths # sensitivity
  /\ sensitivity' = tenths
  /\ lastEvent' = "other"
  /\ NoStopFrom
  /\ UNCHANGED <<isPlaying, analyser, audioContext, microphone, screenShare,
                 animationId, startBtnDisabled, statusType, rafPending,
                 pending, openContexts, liveTracks, onended, starts, clock,
                 lastFrameTime, bufferVars, rainVars, visualType, pc, drawn,
                 stoppedSince, frameLog, frameGap, frames, canvasVars,
                 starVars, previousCirclePositions>>

----------------------------------------------------------------------------
\* Specifications

\* The state the constructor leaves.
Init ==
  /\ isPlaying = FALSE /\ analyser = Null /\ audioContext = Null
  /\ microphone = Null /\ screenShare = Null /\ animationId = Null
  /\ frequencyData = ZeroBuffer(NumBins)
  /\ dataArray = ZeroBuffer(NumBins)
  /\ boostedFrequencyData = <<>>
  /\ smoothedFrequencyData = ZeroBuffer(NumBins)
  /\ sensitivity = 10 /\ visualType = "frequency3x"
  /\ raindrops = <<>> /\ barRaindropTimers = EmptyTimers
  /\ lastFrameTime = 0
  /\ startBtnDisabled = FALSE /\ statusType = "none"
  /\ rafPending = {} /\ pending = [k \in Kinds |-> 0]
  /\ openContexts = {} /\ liveTracks = {} /\ onended = {} /\ starts = 0
  /\ clock = 0 /\ pc = "idle" /\ drawn = NoDraw
  /\ lastEvent = "constructor" /\ stoppedSince = FALSE /\ stopFrom = NoStop
  /\ frameLog = <<>> /\ frameGap = -1 /\ frames = 0
  /\ CanvasInit /\ ctx = TRUE

\* Whole sessions, in the mode the constructor sets: one spectrum, callbacks
\* 10 or 25 ms apart.
SessionSamples == {Flat(NumBins, 200)}
SessionSteps == {10, 25}

Next ==
  \/ StartMicrophoneClick
  \/ \E kind \in {"desktop", "mobile"} : StartScreenShareClick(kind)
  \/ StartMicrophoneGranted
  \/ StartScreenShareGranted
  \/ \E method \in {"direct", "destination"} : StartMobileGranted(method)
  \/ \E kind \in Kinds : StartDenied(kind)
  \/ \E s \in 1..(MaxStarts + 1) : CaptureEnded(s)
  \/ StopVisualizer
  \/ \E d \in SessionSteps : AnimateEnter(d)
  \/ \E sample \in SessionSamples : AnimateSample(sample, Flat(NumBins, 128))
  \/ AnimateCondition
  \/ AnimateDraw
  \/ AnimateRequest

Spec == Init /\ [][Next]_vars

\* The same sessions with stopVisualizer also called directly, in any state
\* between two handlers.
StopNext == Next \/ StopVisualizerCall

SpecStop == Init /\ [][StopNext]_vars

----------------------------------------------------------------------------
\* One running session, from the state startMicrophone leaves when its stream
\* is granted: every mode, several sensitivities, spectra and callback times.

FrameInit ==
  /\ isPlaying = TRUE /\ analyser = 1 /\ audioContext = 1
  /\ microphone = 1 /\ screenShare = Null /\ animationId = 1
  /\ frequencyData = ZeroBuffer(NumBins)
  /\ dataArray = ZeroBuffer(NumBins)
  /\ boostedFrequencyData = <<>>
  /\ smoothedFrequencyData = ZeroBuffer(NumBins)
  /\ sensitivity = 10 /\ visualType = "frequency3x"
  /\ raindrops = <<>> /\ barRaindropTimers = EmptyTimers
  /\ lastFrameTime = 0
  /\ startBtnDisabled = TRUE /\ statusType = "active"
  /\ rafPending = {1} /\ pending = [k \in Kinds |-> 0]
  /\ openContexts = {1} /\ liveTracks = {1} /\ onended = {} /\ starts = 1
  /\ clock = 0 /\ pc = "idle" /\ drawn = NoDraw
  /\ lastEvent = "start" /\ stoppedSince = FALSE /\ stopFrom = NoStop
  /\ frameLog = <<>> /\ frameGap = -1 /\ frames = 0
  /\ CanvasInit /\ ctx = TRUE

FrameSteps == {0, 10, 25}
FrameSamples == {Flat(NumBins, 0), Flat(NumBins, 200), Ramp(NumBins)}
FrameWaves == {Flat(NumBins, 128)}
FrameModes == KnownModes
FrameSensitivities == {0, 10}

FrameNext ==
  \/ \E d \in FrameSteps : AnimateEnter(d)
  \/ \E sample \in FrameSamples, wave \in FrameWaves :
       AnimateSample(sample, wave)
  \/ AnimateCondition
  \/ AnimateDraw
  \/ AnimateRequest
  \/ \E mode \in FrameModes : SetVisualType(mode)
  \/ \E tenths \in FrameSensitivities : SetSensitivity(tenths)

SpecFrame == FrameInit /\ [][FrameNext]_vars

----------------------------------------------------------------------------
\* applyHighEndBoost on its own: any array of 1..MaxLen bytes.

BoostLevels == {0, 1, 128, 255}

RECURSIVE ByteArrays(_)
ByteArrays(n) ==
  IF n = 0 THEN {<<>>}
  ELSE {Append(f, v) : f \in ByteArrays(n - 1), v \in BoostLevels}

BoostInit ==
  /\ \E n \in 1..MaxLen : frequencyData \in ByteArrays(n)
  /\ isPlaying = FALSE /\ analyser = Null /\ audioContext = Null
  /\ microphone = Null /\ screenShare = Null /\ animationId = Null
  /\ dataArray = ZeroBuffer(NumBins)
  /\ boostedFrequencyData = <<>>
  /\ smoothedFrequencyData = ZeroBuffer(NumBins)
  /\ sensitivity = 10 /\ visualType = "frequency3x"
  /\ raindrops = <<>> /\ barRaindropTimers = EmptyTimers
  /\ lastFrameTime = 0
  /\ startBtnDisabled = FALSE /\ statusType = "none"
  /\ rafPending = {} /\ pending = [k \in Kinds |-> 0]
  /\ openContexts = {} /\ liveTracks = {} /\ onended = {} /\ starts = 0
  /\ clock = 0 /\ pc = "idle" /\ drawn = NoDraw
  /\ lastEvent = "constructor" /\ stoppedSince = FALSE /\ stopFrom = NoStop
  /\ frameLog = <<>> /\ frameGap = -1 /\ frames = 0
  /\ CanvasInit /\ ctx = TRUE

\* this.boostedFrequencyData = this.applyHighEndBoost(this.frequencyData)
ApplyBoost ==
  /\ lastEvent = "constructor"
  /\ boostedFrequencyData' = applyHighEndBoost(frequencyData)
  /\ lastEvent' = "boost"
  /\ UNCHANGED <<isPlaying, analyser, audioContext, microphone, screenShare,
                 animationId, frequencyData, dataArray, smoothedFrequencyData,
                 knobVars, rainVars, lastFrameTime, startBtnDisabled,
                 statusType, rafPending, pending, openContexts, liveTracks,
                 onended, starts, clock, pc, drawn, stoppedSince, stopFrom,
                 frameLog, frameGap, frames, canvasVars, starVars,
                 previousCirclePositions>>

BoostNext == ApplyBoost

SpecBoost == BoostInit /\ [][BoostNext]_vars

----------------------------------------------------------------------------
\* A long run of one session whose spectrum is held: every processed frame
\* samples the level of the frame before it, or silence from some frame on.
\* Callbacks come SmoothStep ms apart, so none is throttled.

SmoothLevels == {0, 128, 200, 255}
SmoothStep == 25
SmoothClock == SmoothStep * (SmoothFrames + 1)

SmoothNext ==
  \/ animate(SmoothStep, SmoothFrames, SmoothClock)
  \/ \E v \in SmoothLevels :
       /\ frames = 1 \/ frequencyData = Flat(NumBins, v) \/ v = 0
       /\ AnimateSample(Flat(NumBins, v), Flat(NumBins, 128))
  \/ AnimateCondition
  \/ AnimateDraw
  \/ AnimateRequest

SpecSmooth == FrameInit /\ [][SmoothNext]_vars

----------------------------------------------------------------------------
\* One running session with every bin at 200 whose window is resized and
\* whose canvas goes in and out of fullscreen mode, in the bottom bar mode or
\* starlight.

CanvasModes == {"frequency2x", "starlight"}
CanvasRandoms == [x |-> {50}, y |-> {50}, size |-> {50}]
CanvasStep == 25
CanvasClock == CanvasStep * CanvasFrames

CanvasNext ==
  \/ animate(CanvasStep, CanvasFrames, CanvasClock)
  \/ AnimateSample(Flat(NumBins, 200), Flat(NumBins, 128))
  \/ AnimateCondition
  \/ AnimateDrawRandom(CanvasRandoms)
  \/ AnimateRequest
  \/ \E mode \in CanvasModes : SetVisualType(mode)
  \/ \E win \in Windows : WindowResize(win)
  \/ EnterFullscreen
  \/ ExitFullscreen

SpecCanvas == FrameInit /\ [][CanvasNext]_vars

----------------------------------------------------------------------------
\* One running session in frequency3x whose bars rise and fall: callbacks
\* come 25 or 100 ms apart, so that bars are high again 200 ms and 225 ms
\* after they spawned; every bin at 22 puts the lowest bar just below 15 px
\* and the boosted ones above.

OnlyFirst(n, v) == [i \in 1..n |-> IF i = 1 THEN v ELSE 0]
RainSamples == {Flat(NumBins, 22), Flat(NumBins, 200), OnlyFirst(NumBins, 200)}
RainSteps == {25, 100}
RainClock == 100 * RainFrames

RainNext ==
  \/ \E d \in RainSteps : animate(d, RainFrames, RainClock)
  \/ \E sample \in RainSamples : AnimateSample(sample, Flat(NumBins, 128))
  \/ AnimateCondition
  \/ AnimateDraw
  \/ AnimateRequest

SpecRain == FrameInit /\ [][RainNext]_vars

----------------------------------------------------------------------------
\* One running session in frequency3x that is loud in its first processed
\* frame and silent from then on: the raindrops of the first frame fall and
\* fade, one updateRaindrops call per frame, and no other is created.

FadeSamples == {Flat(NumBins, 128), Flat(NumBins, 200)}
FadeStep == 25
FadeClock == FadeStep * FadeFrames

FadeNext ==
  \/ animate(FadeStep, FadeFrames, FadeClock)
  \/ \E sample \in FadeSamples \cup {ZeroBuffer(NumBins)} :
       /\ frames = 1 <=> sample \in FadeSamples
       /\ AnimateSample(sample, Flat(NumBins, 128))
  \/ AnimateCondition
  \/ AnimateDraw
  \/ AnimateRequest

SpecFade == FrameInit /\ [][FadeNext]_vars

----------------------------------------------------------------------------
\* One running session in frequency3x that stays loud, every bin at 200 and
\* a callback every FadeStep ms: every bar spawns again as soon as its timer
\* allows, while the raindrops of earlier rounds fall and fade.

StormNext ==
  \/ animate(FadeStep, FadeFrames, FadeClock)
  \/ AnimateSample(Flat(NumBins, 200), Flat(NumBins, 128))
  \/ AnimateCondition
  \/ AnimateDraw
  \/ AnimateRequest

SpecStorm == FrameInit /\ [][StormNext]_vars

----------------------------------------------------------------------------
\* One running session in frequency3x with every bin at 200 whose sensitivity
\* is set to 0.5, 1.0, 2.0 or 5.0 between frames.

LoudSensitivities == {5, 10, 20, 50}

LoudNext ==
  \/ animate(CanvasStep, CanvasFrames, CanvasClock)
  \/ AnimateSample(Flat(NumBins, 200), Flat(NumBins, 128))
  \/ AnimateCondition
  \/ AnimateDraw
  \/ AnimateRequest
  \/ \E tenths \in LoudSensitivities : SetSensitivity(tenths)

SpecLoud == FrameInit /\ [][LoudNext]_vars

----------------------------------------------------------------------------
\* One running session of a page whose stored preference named the mode:
\* loadUserPreferences assigns whatever string localStorage holds, and the
\* mode select then changes it to one of its options.

SavedVisualTypes == {"frequency3x", "plasma"}
ModeOptions == {"frequency3x", "circles", "starlight"}

ModeInit ==
  /\ isPlaying = TRUE /\ analyser = 1 /\ audioContext = 1
  /\ microphone = 1 /\ screenShare = Null /\ animationId = 1
  /\ frequencyData = ZeroBuffer(NumBins)
  /\ dataArray = ZeroBuffer(NumBins)
  /\ boostedFrequencyData = <<>>
  /\ smoothedFrequencyData = ZeroBuffer(NumBins)
  /\ sensitivity = 10 /\ visualType \in SavedVisualTypes
  /\ raindrops = <<>> /\ barRaindropTimers = EmptyTimers
  /\ lastFrameTime = 0
  /\ startBtnDisabled = TRUE /\ statusType = "active"
  /\ rafPending = {1} /\ pending = [k \in Kinds |-> 0]
  /\ openContexts = {1} /\ liveTracks = {1} /\ onended = {} /\ starts = 1
  /\ clock = 0 /\ pc = "idle" /\ drawn = NoDraw
  /\ lastEvent = "start" /\ stoppedSince = FALSE /\ stopFrom = NoStop
  /\ frameLog = <<>> /\ frameGap = -1 /\ frames = 0
  /\ CanvasInit /\ ctx = TRUE

ModeNext ==
  \/ animate(CanvasStep, CanvasFrames, CanvasClock)
  \/ AnimateSample(Flat(NumBins, 200), Flat(NumBins, 128))
  \/ AnimateCondition
  \/ AnimateDraw
  \/ AnimateRequest
  \/ \E mode \in ModeOptions : SetVisualType(mode)

SpecMode == ModeInit /\ [][ModeNext]_vars

----------------------------------------------------------------------------
\* Sessions of a page whose canvas gave no drawing context: the state the
\* constructor leaves when getContext("2d") returned null, and the handlers
\* of the three buttons.

NoContextInit ==
  /\ isPlaying = FALSE /\ analyser = Null /\ audioContext = Null
  /\ microphone = Null /\ screenShare = Null /\ animationId = Null
  /\ frequencyData = ZeroBuffer(NumBins)
  /\ dataArray = ZeroBuffer(NumBins)
  /\ boostedFrequencyData = <<>>
  /\ smoothedFrequencyData = ZeroBuffer(NumBins)
  /\ sensitivity = 10 /\ visualType = "frequency3x"
  /\ raindrops = <<>> /\ barRaindropTimers = EmptyTimers
  /\ lastFrameTime = 0
  /\ startBtnDisabled = FALSE /\ statusType = "none"
  /\ rafPending = {} /\ pending = [k \in Kinds |-> 0]
  /\ openContexts = {} /\ liveTracks = {} /\ onended = {} /\ starts = 0
  /\ clock = 0 /\ pc = "idle" /\ drawn = NoDraw
  /\ lastEvent = "constructor" /\ stoppedSince = FALSE /\ stopFrom = NoStop
  /\ frameLog = <<>> /\ frameGap = -1 /\ frames = 0
  /\ CanvasInit /\ ctx = FALSE

NoContextNext ==
  \/ StartMicrophoneClick
  \/ \E kind \in {"desktop", "mobile"} : StartScreenShareClick(kind)
  \/ StartMicrophoneGranted
  \/ StartScreenShareGranted
  \/ \E method \in {"direct", "destination"} : StartMobileGranted(method)
  \/ \E kind \in Kinds : StartDenied(kind)
  \/ \E s \in 1..(MaxStarts + 1) : CaptureEnded(s)
  \/ StopVisualizer

SpecNoContext == NoContextInit /\ [][NoContextNext]_vars

----------------------------------------------------------------------------
\* One running session that is switched to starlight and whose window is
\* resized, so that stars are generated more than once.  Math.random() puts a
\* star 50 or 61 pixels from the left edge with size 1 or 3.7: two small stars
\* 11 pixels apart are far enough from each other, two large ones are not,
\* and a star put on an earlier one never is, so that later stars fall back
\* on the 100th attempt.

StarRandoms == [x |-> {0, 1}, y |-> {0}, size |-> {0, 90}]
StarWindows == {SmallWindow}
StarStep == 25
StarClock == StarStep * StarFrames

StarsNext ==
  \/ animate(StarStep, StarFrames, StarClock)
  \/ AnimateSample(Flat(NumBins, 200), Flat(NumBins, 128))
  \/ AnimateCondition
  \/ AnimateDrawRandom(StarRandoms)
  \/ AnimateRequest
  \/ SetVisualType("starlight")
  \/ \E win \in StarWindows : WindowResize(win)

SpecStars == FrameInit /\ [][StarsNext]_vars

----------------------------------------------------------------------------
\* Claims

FrameOrder == <<"sample", "condition", "draw", "request">>
HasDrawn == Len(frameLog) >= 3

\* C1: after stopVisualizer is called while Running, isPlaying is false, no
\* animation frame request is pending, analyser is null, and the raindrop
\* store and the per-bar raindrop timers are empty.
C1_StopLeavesIdle ==
  (lastEvent = "stopVisualizer" /\ stopFrom.wasPlaying) =>
    /\ ~isPlaying /\ animationId = Null /\ rafPending = {}
    /\ analyser = Null
    /\ raindrops = <<>> /\ DOMAIN barRaindropTimers = {}

\* A stop of a running session that had a request pending and raindrops falling.
C1_Witness ==
  /\ lastEvent = "stopVisualizer"
  /\ stopFrom.wasPlaying /\ stopFrom.hadRaindrops /\ stopFrom.hadRequest

\* C2: after stopVisualizer returns, every track of every captured stream has
\* been stopped and every AudioContext created has been closed, whichever
\* start path produced the session.
C2_StopReleasesAll ==
  lastEvent = "stopVisualizer" => (liveTracks = {} /\ openContexts = {})

\* C3: when the capture source ends by itself while Running (onended calls
\* stopScreenShare), isPlaying is false and no animation frame request is
\* pending, as after an explicit stop.
C3_EndedLeavesIdle ==
  lastEvent = "onended" =>
    (~isPlaying /\ animationId = Null /\ rafPending = {})

\* C4: from the return of stopVisualizer until a later start succeeds, the
\* pending frame request is cancelled and no frame callback samples,
\* conditions, draws or re-requests.
C4_NoFrameWorkAfterStop ==
  stoppedSince =>
    /\ rafPending = {} /\ animationId = Null
    /\ pc = "idle"
    /\ lastEvent \notin {"animate", "animateThrottled"}

\* A session that processed frames was stopped, and a later start is still
\* waiting for its stream.
C4_Witness ==
  /\ stoppedSince /\ frames > 0 /\ lastEvent = "other"
  /\ \E k \in Kinds : pending[k] > 0

\* C5: in every processed frame each spectrum-driven mode reads its bin
\* values from smoothedFrequencyData as computed in that frame.
C5_DrawReadsSmoothed ==
  (HasDrawn /\ drawn.mode \in SpectrumModes) =>
    drawn.data = smoothedFrequencyData

\* C6: a processed frame samples, then boosts and smooths, then draws, then
\* requests the next frame; the draw reads the buffers conditioned from that
\* frame's sample, and no request is outstanding before the last step.
C6_ConditionBeforeDraw ==
  /\ Len(frameLog) <= Len(FrameOrder)
  /\ \A k \in 1..Len(frameLog) : frameLog[k] = FrameOrder[k]
  /\ pc # "idle" => rafPending = {}
  /\ HasDrawn =>
       /\ boostedFrequencyData = applyHighEndBoost(frequencyData)
       /\ drawn.data = modeData(drawn.mode)

\* The second processed frame has drawn bars from a spectrum that differs from
\* the one before it, and is about to request the next frame.
C6_Witness ==
  /\ pc = "request" /\ frames = 2 /\ drawn.mode = "frequency2x"
  /\ frequencyData = Ramp(NumBins)
  /\ smoothedFrequencyData # boostedFrequencyData

\* C7: two consecutively processed frames with timestamps t1 < t2 are at
\* least 1000/45 ms apart, for every sequence of callback timestamps.
C7_FrameGap ==
  frameGap > 0 => targetFPS * frameGap >= 1000

\* C8: at most one animation frame request is outstanding.
C8_OneRequest == Cardinality(rafPending) <= 1

\* Two start handlers resumed with no stop between them: two contexts of two
\* sessions are open and the second call of startVisualization has returned.
C8_Witness ==
  /\ lastEvent = "start"
  /\ Cardinality({s \in openContexts : s < InnerOffset}) >= 2
  /\ Cardinality(rafPending) = 1

\* C9: in every spectrum-driven mode each bin value is multiplied by the
\* sensitivity before it is used, and with sensitivity 0 every element is
\* drawn with its zero-energy length.
C9_SensitivityScalesAll ==
  (pc = "request" /\ drawn.mode \in SpectrumModes) =>
    \A k \in 1..Len(drawn.values) :
      /\ drawn.values[k] =
           RoundDiv(drawn.data[modeBin(drawn.mode, k - 1, Len(drawn.data)) + 1]
                      * sensitivity, 10)
      /\ sensitivity = 0 =>
           drawn.geom[k] = modeGeom(drawn.mode, 0)

\* C10: for bytes 0..255 and any length N >= 1, boosted[i] >= raw[i] for
\* i >= floor(0.6 N) and boosted[i] = raw[i] for i < floor(0.6 N).
C10_BoostNeverLowers ==
  lastEvent = "boost" =>
    /\ Len(boostedFrequencyData) = Len(frequencyData)
    /\ \A i \in 1..Len(frequencyData) :
         IF i - 1 >= (6 * Len(frequencyData)) \div 10
         THEN boostedFrequencyData[i] >= frequencyData[i] * FP
         ELSE boostedFrequencyData[i] = frequencyData[i] * FP

\* An array with a bin left alone and a bin raised.
C10_Witness ==
  /\ lastEvent = "boost"
  /\ \E i, j \in 1..Len(frequencyData) :
       /\ i < j /\ frequencyData[i] > 0
       /\ boostedFrequencyData[i] = frequencyData[i] * FP
       /\ boostedFrequencyData[j] > frequencyData[j] * FP

\* C11: the boost multiplier is exactly 1.5 at the first boosted bin
\* (index floor(0.6 N)) and exactly 2.3 at the final bin (index N - 1), and
\* every output value is at most 255.
C11_BoostEndpoints ==
  lastEvent = "boost" =>
    LET n == Len(frequencyData)
        first == (6 * n) \div 10 + 1
    IN  /\ \A i \in 1..n : boostedFrequencyData[i] <= 255 * FP
        /\ boostedFrequencyData[first] =
             Min(255 * FP, RoundDiv(frequencyData[first] * FP * 15, 10))
        /\ boostedFrequencyData[n] =
             Min(255 * FP, RoundDiv(frequencyData[n] * FP * 23, 10))

\* The smoothing updates the running frame has behind it.
Smoothed == pc \notin {"sample", "condition"} /\ frames > 0

\* C12: each smoothing update multiplies the distance of smoothed[i] to the
\* boosted value of the frame by 0.85 (to the rounding of the buffer), and
\* with the boosted value held at a target above 0 from a smoothed value of 0
\* the distance is within 1% of the target after 29 frames and not before.
C12_WithinOnePercent ==
  (Smoothed /\ \E v \in SmoothLevels \ {0} : frequencyData = Flat(NumBins, v))
    => \A i \in 1..Len(smoothedFrequencyData) :
         LET dist == Abs(boostedFrequencyData[i] - smoothedFrequencyData[i])
         IN  /\ frames >= 29 => 100 * dist <= boostedFrequencyData[i]
             /\ frames < 29 => 100 * dist > boostedFrequencyData[i]

C12_StepContracts ==
  pc = "condition" =>
    \A i \in 1..Len(smoothedFrequencyData) :
      Abs(100 * (boostedFrequencyData'[i] - smoothedFrequencyData'[i])
            - 85 * (boostedFrequencyData'[i] - smoothedFrequencyData[i])) <= 50

C12_SmoothingContracts ==
  []C12_WithinOnePercent /\ [][C12_StepContracts]_vars

\* The 29th frame of a held spectrum has been smoothed.
C12_Witness ==
  /\ Smoothed /\ frames = 29 /\ frequencyData = Flat(NumBins, 200)
  /\ \A i \in 1..NumBins :
       100 * Abs(boostedFrequencyData[i] - smoothedFrequencyData[i])
         <= boostedFrequencyData[i]

\* C13: in a processed frame whose raw sample is all zeros no bin of the
\* smoothed spectrum rises, a bin that is 0 stays 0, and no bin is ever
\* negative.
C13_SilentStep ==
  (pc = "condition" /\ frequencyData = ZeroBuffer(Len(frequencyData))) =>
    /\ Len(smoothedFrequencyData') = Len(smoothedFrequencyData)
    /\ \A i \in 1..Len(smoothedFrequencyData) :
         /\ smoothedFrequencyData'[i] <= smoothedFrequencyData[i]
         /\ smoothedFrequencyData[i] = 0 => smoothedFrequencyData'[i] = 0

C13_SilenceDecays ==
  /\ [](\A i \in 1..Len(smoothedFrequencyData) : smoothedFrequencyData[i] >= 0)
  /\ [][C13_SilentStep]_vars

\* The third silent frame after a loud one has been smoothed: every bin is
\* still above 0 and the lowest bin is below what the loud frame left.
C13_Witness ==
  /\ Smoothed /\ frames = 4 /\ frequencyData = ZeroBuffer(NumBins)
  /\ \A i \in 1..NumBins : smoothedFrequencyData[i] > 0
  /\ smoothedFrequencyData[1] < RoundDiv(15 * 128 * FP, 100)

\* The frame of the scenario: every raw bin 200, sensitivity 1.0, bars drawn
\* from the bottom of a 1000 x 600 canvas.
BarScenario ==
  /\ pc = "request" /\ drawn.mode = "frequency2x"
  /\ frequencyData = Flat(NumBins, 200) /\ sensitivity = 10
  /\ canvasWidth = 1000 /\ canvasHeight = 600

\* The left and the right rectangle of a bar are mirror images about
\* x = canvasWidth / 2.
Mirrored(bar) == bar.xLeft + bar.width + bar.xRight = canvasWidth * FP

\* C14 as stated: in the scenario every bar, of every bin and on both sides,
\* has height (200/255) * 0.8 * 600, and the two bars of a bin are mirror
\* images.
C14_EveryBar376 ==
  BarScenario =>
    \A k \in 1..Len(drawn.bars) :
      /\ drawn.bars[k].height = RoundDiv(200 * FP * 8 * 600, 2550)
      /\ Mirrored(drawn.bars[k])

\* C14 amended: the bars of the bins below floor(0.6 N) have height
\* (200/255) * 0.8 * 600; the bars of the boosted bins, whose value
\* min(255, 200 * multiplier) is 255, have height 0.8 * 600; the two bars of
\* a bin are mirror images.
C14_BoostedBarsFull ==
  BarScenario =>
    /\ Len(drawn.bars) = NumBins
    /\ \A k \in 1..Len(drawn.bars) :
         /\ drawn.bars[k].height =
              IF k - 1 < (6 * NumBins) \div 10
              THEN RoundDiv(200 * FP * 8 * 600, 2550)
              ELSE 8 * 60 * FP
         /\ drawn.bars[k].y = 600 * FP - drawn.bars[k].height
         /\ Mirrored(drawn.bars[k])

C14_Witness == BarScenario /\ isFullscreen /\ frames >= 2

\* C15: in frequency3x mode, whatever the sensitivity, every bar is drawn
\* from y = 0 with height at most 0.35 * 0.6 * canvasHeight.
C15_BarHeightCapped ==
  (pc = "request" /\ drawn.mode = "frequency3x") =>
    \A k \in 1..Len(drawn.bars) :
      /\ drawn.bars[k].y = 0
      /\ 100 * drawn.bars[k].height <= 21 * canvasHeight * FP

\* Date.now() of the last raindrop the session created at x, or 0.
LastSpawn(x) ==
  LET at == {k \in 1..Len(spawnLog) : spawnLog[k].x = x}
  IN  IF at = {} THEN 0
      ELSE spawnLog[CHOOSE k \in at : \A j \in at : j <= k].time

\* Where a raindrop of a bar rectangle starting at x is created.
DropX(x, width) == x + RoundDiv(width, 2)

\* Every raindrop of the session fell from a bar higher than 15 px, and two
\* raindrops created at the same place are more than 200 ms apart.
C16_SpawnsApart ==
  \A k \in 1..Len(spawnLog) :
    /\ spawnLog[k].height > 15 * FP
    /\ \A j \in 1..(k - 1) :
         spawnLog[j].x = spawnLog[k].x =>
           spawnLog[k].time - spawnLog[j].time > raindropInterval

\* A frequency3x draw creates a raindrop at a bar position and side exactly
\* when that bar is higher than 15 px and the last raindrop created at that
\* very place is more than 200 ms old: no other position's raindrops count.
C16_SpawnsAlone ==
  (pc = "draw" /\ visualType = "frequency3x") =>
    LET bars == drawMode(visualType).bars
    IN  \A k \in 1..Len(bars) :
          \A x \in {DropX(bars[k].xRight, bars[k].width),
                    DropX(bars[k].xLeft, bars[k].width)} :
            (/\ bars[k].height > 15 * FP
             /\ DateNow - LastSpawn(x) > raindropInterval)
            <=> \E j \in (Len(spawnLog) + 1)..Len(spawnLog') :
                  spawnLog'[j].x = x /\ spawnLog'[j].time = DateNow

\* C16: in frequency3x a bar position spawns raindrops only in a frame where
\* its bar is higher than 15 px; two spawns at the same position and side
\* are more than 200 ms apart; a spawn at one position never delays a spawn
\* at another.
C16_RaindropRate == []C16_SpawnsApart /\ [][C16_SpawnsAlone]_vars

\* A position has spawned twice, and another position spawned within 200 ms
\* after the first spawn of that one.
C16_Witness ==
  \E i, j, k \in 1..Len(spawnLog) :
    /\ spawnLog[i].x = spawnLog[j].x /\ spawnLog[i].time < spawnLog[j].time
    /\ spawnLog[k].x # spawnLog[i].x
    /\ spawnLog[k].time > spawnLog[i].time
    /\ spawnLog[k].time - spawnLog[i].time <= raindropInterval

\* updateRaindrops has run once in every processed frame so far.
Updated == pc \in {"request", "idle"} /\ frames > 0

\* A raindrop created in the first frame is above the bottom edge after
\* every one of the updates so far.
OnCanvas(e) == e.height + frames * e.speed <= canvasHeight * FP

\* C17: a raindrop created with alpha 0.8 that never passes the bottom edge
\* is still in the store after 159 calls of updateRaindrops, with alpha
\* 0.8 - 0.005 per call, and absent after the 160th.
C17_GoneAt160 ==
  Updated =>
    /\ frames >= 160 => raindrops = <<>>
    /\ frames <= 159 =>
         \A k \in 1..Len(spawnLog) :
           (spawnLog[k].alpha = RoundDiv(8 * AlphaFP, 10) /\ OnCanvas(spawnLog[k]))
             => \E j \in 1..Len(raindrops) :
                  /\ raindrops[j].x = spawnLog[k].x
                  /\ raindrops[j].y = spawnLog[k].height
                                        + frames * spawnLog[k].speed
                  /\ 1000 * raindrops[j].alpha = AlphaFP * (800 - 5 * frames)

\* The 159th update has run and raindrops of the first frame are left.
C17_Witness ==
  /\ Updated /\ frames = 159 /\ raindrops # <<>>
  /\ \E k \in 1..Len(spawnLog) : ~OnCanvas(spawnLog[k])

\* C18: every processed frame advances the raindrops, whatever mode is
\* active: a draw that finds raindrops in the store moves and fades them (or
\* removes them), so that every raindrop is removed in the end.
C18_EveryFrameAdvances ==
  [][(pc = "draw" /\ raindrops # <<>>) => raindrops' # raindrops]_vars

\* The stars exist and the canvas has the size they were generated for.
SameCanvas == starGenerations > 0 /\ starCanvas = <<canvasWidth, canvasHeight>>

\* C19: once generated, the stars are generated again only by a starlight
\* draw that finds the canvas width or height different from the size they
\* were generated for (not by a resize or fullscreen exit that leaves that
\* size, a mode or sensitivity change), and every such draw regenerates.
C19_RegeneratesOnSizeChange ==
  /\ [][SameCanvas => starGenerations' = starGenerations]_vars
  /\ [][(/\ pc = "draw" /\ visualType = "starlight"
          /\ starGenerations > 0 /\ ~SameCanvas)
           => starGenerations' = starGenerations + 1]_vars

\* C20: a star generation leaves exactly min(N, 128) stars for a spectrum of
\* N bins, and every star that was accepted before its 100th attempt lies at
\* least 1.5 * (size_a + size_b) away from every star placed before it; only
\* a star of the 100th attempt may be nearer.  (Distances are compared
\* squared: 4 * 100^2 * d^2 >= 9 * (size_a + size_b)^2, sizes in hundredths.)
Apart(a, b) ==
  40000 * ((a.x - b.x) * (a.x - b.x) + (a.y - b.y) * (a.y - b.y))
    >= 9 * (a.size + b.size) * (a.size + b.size)

C20_StarsCountedAndApart ==
  starGenerations > 0 =>
    /\ Len(starPositions) = Min(Len(frequencyData), 128)
    /\ Len(starAttempts) = Len(starPositions)
    /\ \A j \in 1..Len(starPositions) :
         starAttempts[j] < 100 =>
           \A i \in 1..(j - 1) : Apart(starPositions[j], starPositions[i])

\* A generation in which one star was accepted 11 pixels from an earlier one
\* after earlier attempts had failed, and a later one is a fallback lying on
\* an earlier star.
C20_Witness ==
  /\ starGenerations > 0
  /\ \E j \in 2..Len(starPositions) :
       /\ starAttempts[j] = 99
       /\ \E i \in 1..(j - 1) :
            Abs(starPositions[j].x - starPositions[i].x) = 11
  /\ \E j \in 2..Len(starPositions) :
       /\ starAttempts[j] = 100
       /\ \E i \in 1..(j - 1) : ~Apart(starPositions[j], starPositions[i])

\* C21: when the active mode identifier is none of the known ones, a
\* processed frame clears the canvas, invokes no drawing mode, changes no
\* raindrop, trail or star store and still requests the next frame; once the
\* mode is a known identifier the next processed frame dispatches to it.
C21_UnknownDrawsNothing ==
  (pc = "draw" /\ visualType \notin KnownModes) =>
    /\ drawn' = NoDraw /\ pc' = "request"
    /\ UNCHANGED <<raindrops, barRaindropTimers, previousCirclePositions,
                   starPositions>>

C21_FrameRequestsNext ==
  pc = "request" =>
    (pc' = "idle" /\ animationId' \in rafPending'
       /\ Cardinality(rafPending') = 1)

C21_KnownDispatches ==
  (pc = "draw" /\ visualType \in KnownModes) =>
    (drawn'.mode = visualType /\ Len(drawn'.geom) > 0)

C21_UnknownModeRecovers ==
  /\ [][C21_UnknownDrawsNothing]_vars
  /\ [][C21_FrameRequestsNext]_vars
  /\ [][C21_KnownDispatches]_vars

\* The second processed frame has drawn frequency3x bars and spawned the
\* session's first raindrops; the first frame ran under the stored
\* identifier, which no store shows a trace of.
C21_Witness ==
  /\ pc = "request" /\ frames = 2 /\ drawn.mode = "frequency3x"
  /\ spawnLog # <<>> /\ \A k \in 1..Len(spawnLog) : spawnLog[k].time = DateNow
  /\ previousCirclePositions = <<>> /\ starGenerations = 0

\* C22: if the canvas drawing context is unavailable when a capture source
\* becomes available, no animation frame is ever requested, the state does
\* not become Running, the status reports the failure as an error, and
\* nothing retries by itself.
C22_NoContextNoStart ==
  ~ctx =>
    /\ rafPending = {} /\ animationId = Null
    /\ ~isPlaying
    /\ lastEvent = "start" => statusType = "error"

\* C23: stopVisualizer is idempotent: called twice in a row, or called in the
\* Idle state, it leaves the state a single call leaves (isPlaying false, no
\* pending frame, analyser, audioContext, microphone and screenShare null,
\* raindrop store and timers empty) and changes nothing further.
StoppedState ==
  /\ ~isPlaying /\ animationId = Null /\ rafPending = {}
  /\ analyser = Null /\ audioContext = Null /\ microphone = Null
  /\ screenShare = Null
  /\ raindrops = <<>> /\ DOMAIN barRaindropTimers = {}

C23_StopLeavesStopped == lastEvent = "stopVisualizer" => StoppedState

C23_SecondStopChangesNothing ==
  (lastEvent' = "stopVisualizer" /\ (lastEvent = "stopVisualizer" \/ StoppedState))
    => UNCHANGED <<isPlaying, animationId, rafPending, analyser, audioContext,
                   microphone, screenShare, raindrops, barRaindropTimers,
                   openContexts, liveTracks, pending, bufferVars>>

C23_StopIdempotent ==
  []C23_StopLeavesStopped /\ [][C23_SecondStopChangesNothing]_vars

\* A second stopVisualizer call right after a first one that stopped a
\* running session.
C23_Witness ==
  /\ lastEvent = "stopVisualizer" /\ stopFrom.afterStop /\ ~stopFrom.wasPlaying
  /\ frames > 0 /\ StoppedState

\* C24: a raindrop created during a frequency3x frame is drawn in that same
\* frame: spawning precedes updateRaindrops, which precedes drawRaindrops,
\* and the new raindrop, moved and faded once, is in the store that
\* drawRaindrops paints (the store the draw step leaves).
SpawnedNow == SubSeq(spawnLog', Len(spawnLog) + 1, Len(spawnLog'))

InStoreMoved(e, store) ==
  \E k \in 1..Len(store) :
    /\ store[k].x = e.x /\ store[k].y = e.height + e.speed
    /\ store[k].alpha = e.alpha - RoundDiv(5 * AlphaFP, 1000)

C24_SpawnedIsDrawn ==
  [][(pc = "draw" /\ visualType = "frequency3x") =>
       \A k \in 1..Len(SpawnedNow) : InStoreMoved(SpawnedNow[k], raindrops')]_vars

\* C25: a frame callback that arrives less than 1000/45 ms after the last
\* processed frame leaves the raw, boosted and smoothed spectrum buffers, the
\* waveform buffer, the raindrop store and timers, the trail and star stores
\* and lastFrameTime unchanged, and requests exactly one next frame.
CallbackRuns ==
  /\ pc = "idle" /\ isPlaying /\ analyser # Null
  /\ \/ pc' = "sample"
     \/ lastEvent' = "animateThrottled" /\ rafPending' # rafPending

EarlyCallback ==
  CallbackRuns /\ frames > 0 /\ targetFPS * (clock' - lastFrameTime) < 1000

C25_ThrottledFrameIdle ==
  [][EarlyCallback =>
       /\ UNCHANGED <<bufferVars, raindrops, barRaindropTimers,
                      previousCirclePositions, starPositions, lastFrameTime>>
       /\ pc' = "idle"
       /\ Cardinality(rafPending') = 1 /\ animationId' \in rafPending']_vars

\* C26: in every state between two event handlers, a pending animation frame
\* request (animationId not null) implies that isPlaying is true and the
\* analyser is not null.
C26_RequestImpliesPlaying ==
  (pc = "idle" /\ animationId # Null) => (isPlaying /\ analyser # Null)

\* After two start handlers have begun, the running session has processed
\* frames and holds its next request.
C26_Witness ==
  /\ pc = "idle" /\ animationId # Null /\ animationId \in rafPending
  /\ starts >= 2 /\ ~stoppedSince /\ lastEvent = "animate" /\ frames >= 2

\* C27: at most one capture session is live at a time: at most one
\* AudioContext the visualizer created is open and at most one captured
\* stream has running tracks, also when two start requests overlap while
\* they wait for the user's permission.
C27_OneSessionLive ==
  Cardinality(openContexts) <= 1 /\ Cardinality(liveTracks) <= 1

\* C28: for every sequence of frames with raw spectrum bytes in 0..255, every
\* boosted value and every smoothed value is within [0, 255] in every
\* reachable state.
InByteRange(buffer) ==
  \A i \in 1..Len(buffer) : 0 <= buffer[i] /\ buffer[i] <= 255 * FP

C28_BuffersInRange ==
  InByteRange(boostedFrequencyData) /\ InByteRange(smoothedFrequencyData)

\* Thirty frames at full scale: the boost is clamped and the smoothed value
\* has come within a hundredth of 255.
C28_Witness ==
  /\ Smoothed /\ frames = SmoothFrames
  /\ frequencyData = Flat(NumBins, 255)
  /\ boostedFrequencyData[NumBins] = 255 * FP
  /\ \A i \in 1..NumBins : smoothedFrequencyData[i] * 100 >= 99 * 255 * FP

\* C29: the raindrop store is bounded: with N spectrum bins it never holds
\* more than 2 * N * 160 raindrops, and right after every updateRaindrops
\* call every raindrop in it has alpha > 0 and y <= canvas height.  (The
\* store never holds more than 2 * N raindrops of one age, and alpha tells
\* the age.)
C29_StoreBounded ==
  LET n == Len(frequencyData)
  IN  /\ Len(raindrops) <= 2 * n * 160
      /\ \A k \in 1..Len(raindrops) :
           Cardinality({j \in 1..Len(raindrops) :
                          raindrops[j].alpha = raindrops[k].alpha}) <= 2 * n
      /\ (pc = "request" /\ drawn.mode = "frequency3x") =>
           \A k \in 1..Len(raindrops) :
             /\ raindrops[k].alpha > 0
             /\ raindrops[k].y <= canvasHeight * FP

\* The store in its steady state: seventeen rounds of raindrops are falling
\* and the first round has left, through the bottom edge or faded away.
C29_Witness ==
  /\ pc = "request" /\ frames >= 160
  /\ Len(raindrops) >= 2 * NumBins * 17
  /\ Len(spawnLog) >= Len(raindrops) + 2 * NumBins

\* C30: the pipeline is restartable: after any number of start/stop cycles,
\* and after a capture source has ended, a start whose capture request
\* succeeds leaves the state Running with exactly one animation frame request
\* pending, and frames are then processed: between two callbacks the session,
\* for as long as it is not stopped and its own stream runs, holds the
\* request of its next frame.
OneRequestPending == Cardinality(rafPending) = 1 /\ animationId \in rafPending

C30_Restartable ==
  /\ lastEvent = "start" =>
       (isPlaying /\ analyser # Null /\ OneRequestPending)
  /\ (pc = "idle" /\ isPlaying /\ analyser # Null /\ analyser \in liveTracks)
       => OneRequestPending

====
